---- MODULE Spec2Model ----
(***************************************************************************)
(* Key bits of rest_framework_extensions.key_constructor.bits.             *)
(*                                                                         *)
(* A key bit is constructed once with a params specifier and is then       *)
(* invoked through get_data(params, view_instance, view_method, request,   *)
(* args, kwargs).  The state holds the constructed bit, the objects the    *)
(* caller handed to the last get_data call (before and after the call)     *)
(* and what the call produced: a fragment, or the exception it raised.     *)
(*                                                                         *)
(* Text is a sequence of atoms (TLA+ strings); the case conversions, the   *)
(* replacement of '-' and the joins work atom by atom.                     *)
(***************************************************************************)
EXTENDS Integers, Sequences, FiniteSets, TLC

VARIABLES bit, self_params, init_params, call, after, result

vars == <<bit, self_params, init_params, call, after, result>>

(***************************************************************************)
(* Bounds of the model.                                                    *)
(***************************************************************************)
MaxSel == 2     \* longest explicit selector
MaxSrc == 2     \* most entries of a source mapping
MaxArgs == 2    \* most positional arguments
MaxRows == 2    \* most rows of a table

(***************************************************************************)
(* Text.                                                                   *)
(***************************************************************************)
LowerAtom(c) ==
    CASE c = "A" -> "a" [] c = "L" -> "l" [] c = "X" -> "x"
      [] c = "H" -> "h" [] c = "T" -> "t" [] c = "P" -> "p"
      [] OTHER -> c

UpperAtom(c) ==
    CASE c = "a" -> "A" [] c = "l" -> "L" [] c = "x" -> "X"
      [] c = "h" -> "H" [] c = "t" -> "T" [] c = "p" -> "P"
      [] OTHER -> c

DashToUnderscore(c) == IF c = "-" THEN "_" ELSE c

\* str.lower(), str.upper(), str.replace('-', '_')
Lower(s) == [j \in 1..Len(s) |-> LowerAtom(s[j])]
Upper(s) == [j \in 1..Len(s) |-> UpperAtom(s[j])]
ReplaceDash(s) == [j \in 1..Len(s) |-> DashToUnderscore(s[j])]

\* u'.'.join(parts)
RECURSIVE Join(_)
Join(parts) ==
    IF parts = <<>> THEN <<>>
    ELSE IF Len(parts) = 1 THEN parts[1]
    ELSE parts[1] \o <<".">> \o Join(Tail(parts))

(***************************************************************************)
(* Python values found in the source mappings: None, a string, an int.     *)
(***************************************************************************)
VNone == [kind |-> "none", s |-> <<>>, i |-> 0]
VStr(t) == [kind |-> "str", s |-> t, i |-> 0]
VInt(n) == [kind |-> "int", s |-> <<>>, i |-> n]

\* django.utils.encoding.force_text: the text of a value
force_text(v) ==
    CASE v.kind = "str" -> v.s
      [] v.kind = "int" -> <<ToString(v.i)>>
      [] OTHER -> <<"None">>

\* settings: DEFAULT_CACHE_ANY_VALUE
DEFAULT_CACHE_ANY_VALUE == <<"ANY">>

(***************************************************************************)
(* Mappings keep their enumeration order: a sequence of entries with       *)
(* pairwise different keys.                                                *)
(***************************************************************************)
DictKeys(d) == [j \in 1..Len(d) |-> d[j].k]
HasKey(d, key) == \E j \in 1..Len(d) : d[j].k = key

\* dict.get(key): the value, None when the key is missing
DictGet(d, key) ==
    IF HasKey(d, key)
    THEN d[CHOOSE j \in 1..Len(d) : d[j].k = key].v
    ELSE VNone

\* data[key] = text: overwrite in place, or add at the end
DictSet(d, key, text) ==
    IF HasKey(d, key)
    THEN [j \in 1..Len(d) |-> IF d[j].k = key THEN [k |-> key, v |-> text] ELSE d[j]]
    ELSE Append(d, [k |-> key, v |-> text])

RECURSIVE DictsOfSize(_, _, _)
DictsOfSize(K, V, n) ==
    IF n = 0 THEN {<<>>}
    ELSE {Append(d, [k |-> key, v |-> val]) :
            d \in DictsOfSize(K, V, n - 1), key \in K, val \in V}

DistinctKeys(d) == \A i, j \in 1..Len(d) : d[i].k = d[j].k => i = j

\* every mapping over keys K and values V with at most n entries
Dicts(K, V, n) ==
    {d \in UNION {DictsOfSize(K, V, m) : m \in 0..n} : DistinctKeys(d)}

RECURSIVE SeqsOfLen(_, _)
SeqsOfLen(S, n) ==
    IF n = 0 THEN {<<>>}
    ELSE {Append(s, x) : s \in SeqsOfLen(S, n - 1), x \in S}

SeqsUpTo(S, n) == UNION {SeqsOfLen(S, m) : m \in 0..n}

(***************************************************************************)
(* The params specifier of a bit: None, the wildcard '*', a list of        *)
(* selector names, a list of indices, or a mapping of options that may     *)
(* hold a model class under 'class'.                                       *)
(***************************************************************************)
NoClass == [isNone |-> TRUE, module |-> <<>>, name |-> <<>>]
Class(m, n) == [isNone |-> FALSE, module |-> m, name |-> n]

PNone == [kind |-> "none", keys |-> <<>>, idx |-> <<>>, truthy |-> FALSE, cls |-> NoClass]
PStar == [kind |-> "star", keys |-> <<>>, idx |-> <<>>, truthy |-> TRUE, cls |-> NoClass]
PList(ks) == [kind |-> "list", keys |-> ks, idx |-> <<>>, truthy |-> ks # <<>>, cls |-> NoClass]
PIdx(is) == [kind |-> "idx", keys |-> <<>>, idx |-> is, truthy |-> is # <<>>, cls |-> NoClass]
\* {} is PDict(FALSE, NoClass); a mapping without a class is PDict(TRUE, NoClass)
PDict(nonempty, c) ==
    [kind |-> "dict", keys |-> <<>>, idx |-> <<>>, truthy |-> nonempty, cls |-> c]

(***************************************************************************)
(* What a get_data call produces.                                          *)
(***************************************************************************)
Idle == [status |-> "idle", exc |-> "", kind |-> "none", str |-> <<>>, dict |-> <<>>, list |-> <<>>]
Raise(e) == [status |-> "raised", exc |-> e, kind |-> "none", str |-> <<>>, dict |-> <<>>, list |-> <<>>]
RNone == [status |-> "ok", exc |-> "", kind |-> "none", str |-> <<>>, dict |-> <<>>, list |-> <<>>]
RStr(t) == [status |-> "ok", exc |-> "", kind |-> "str", str |-> t, dict |-> <<>>, list |-> <<>>]
RDict(d) == [status |-> "ok", exc |-> "", kind |-> "dict", str |-> <<>>, dict |-> d, list |-> <<>>]
RList(l) == [status |-> "ok", exc |-> "", kind |-> "list", str |-> <<>>, dict |-> <<>>, list |-> l]

(***************************************************************************)
(* The collaborators: querysets, views, view methods, requests.            *)
(***************************************************************************)
QuerySet(m, rows) ==
    [model |-> m, none |-> FALSE, unsat |-> FALSE, where |-> <<>>, rows |-> rows]

NoPaginator == [isNone |-> TRUE, has_page |-> FALSE, page |-> <<>>,
                has_size |-> FALSE, size |-> <<>>]
Paginator(hp, p, hs, s) ==
    [isNone |-> FALSE, has_page |-> hp, page |-> p, has_size |-> hs, size |-> s]

NoView ==
    [isNone |-> TRUE, module |-> <<>>, cls |-> <<>>, has_paginator |-> FALSE,
     paginator |-> NoPaginator, queryset |-> QuerySet(NoClass, <<>>),
     filter |-> "all", has_lookup |-> FALSE, lookup |-> VNone]
View(m, c, hasp, p, qs, f, hasl, l) ==
    [isNone |-> FALSE, module |-> m, cls |-> c, has_paginator |-> hasp,
     paginator |-> p, queryset |-> qs, filter |-> f, has_lookup |-> hasl, lookup |-> l]

NoMethod == [isNone |-> TRUE, name |-> <<>>]
Method(n) == [isNone |-> FALSE, name |-> n]

NoUser == [isNone |-> TRUE, is_authenticated |-> FALSE, pk |-> VNone]
User(auth, pk) == [isNone |-> FALSE, is_authenticated |-> auth, pk |-> pk]

NoRequest ==
    [isNone |-> TRUE, META |-> <<>>, GET |-> <<>>, format |-> VNone,
     has_user |-> FALSE, user |-> NoUser]
Request(meta, get, fmt, hasu, u) ==
    [isNone |-> FALSE, META |-> meta, GET |-> get, format |-> fmt,
     has_user |-> hasu, user |-> u]

(***************************************************************************)
(* KeyBitDictBase and the bits over a dict-like source.  A call carries    *)
(* its context c = [params, view_instance, view_method, request, args,     *)
(* kwargs, lang]; lang is the active locale get_language() answers.        *)
(***************************************************************************)
Source(d) == [raised |-> FALSE, exc |-> "", dict |-> d]
SourceRaise(e) == [raised |-> TRUE, exc |-> e, dict |-> <<>>]

\* request.META of HeadersKeyBit and RequestMetaKeyBit
META_get_source_dict(c) ==
    IF c.request.isNone THEN SourceRaise("AttributeError") ELSE Source(c.request.META)

\* request.GET of QueryParamsKeyBit (and PaginationKeyBit)
QueryParamsKeyBit_get_source_dict(c) ==
    IF c.request.isNone THEN SourceRaise("AttributeError") ELSE Source(c.request.GET)

KwargsKeyBit_get_source_dict(c) == Source(c.kwargs)

get_source_dict(cls, c) ==
    CASE cls \in {"HeadersKeyBit", "RequestMetaKeyBit"} -> META_get_source_dict(c)
      [] cls \in {"QueryParamsKeyBit", "PaginationKeyBit"} -> QueryParamsKeyBit_get_source_dict(c)
      [] OTHER -> KwargsKeyBit_get_source_dict(c)

\* rest_framework_extensions.utils.prepare_header_name
prepare_header_name(name) == <<"H", "T", "T", "P", "_">> \o Upper(ReplaceDash(name))

prepare_key_for_value_retrieving(cls, key) ==
    IF cls = "HeadersKeyBit" THEN prepare_header_name(Lower(key)) ELSE key

prepare_key_for_value_assignment(cls, key) ==
    IF cls = "HeadersKeyBit" THEN Lower(key) ELSE key

\* CollectData without the test for None: a missing value gets a placeholder
RECURSIVE CollectData_placeholder(_, _, _, _)
CollectData_placeholder(cls, source, keys, data) ==
    IF keys = <<>> THEN data
    ELSE LET key == Head(keys)
             value == DictGet(source, prepare_key_for_value_retrieving(cls, key))
         IN CollectData_placeholder(cls, source, Tail(keys),
                DictSet(data, prepare_key_for_value_assignment(cls, key),
                        force_text(value)))

\* CollectData adding an entry for every selector key instead of assigning
RECURSIVE CollectData_append(_, _, _, _)
CollectData_append(cls, source, keys, data) ==
    IF keys = <<>> THEN data
    ELSE LET key == Head(keys)
             value == DictGet(source, prepare_key_for_value_retrieving(cls, key))
         IN CollectData_append(cls, source, Tail(keys),
                IF value.kind # "none"
                THEN Append(data, [k |-> prepare_key_for_value_assignment(cls, key),
                                   v |-> force_text(value)])
                ELSE data)

\* the loop of KeyBitDictBase.get_data over the selector keys, in order
RECURSIVE CollectData(_, _, _, _)
CollectData(cls, source, keys, data) ==
    IF keys = <<>> THEN data
    ELSE LET key == Head(keys)
             value == DictGet(source, prepare_key_for_value_retrieving(cls, key))
         IN CollectData(cls, source, Tail(keys),
                IF value.kind # "none"
                THEN DictSet(data, prepare_key_for_value_assignment(cls, key),
                             force_text(value))
                ELSE data)

\* KeyBitDictBase.get_data that never expands the wildcard
KeyBitDictBase_get_data_nostar(cls, c) ==
    IF c.params.kind = "none" THEN RDict(<<>>)
    ELSE LET src == get_source_dict(cls, c)
         IN IF src.raised THEN Raise(src.exc)
            ELSE RDict(CollectData(cls, src.dict, c.params.keys, <<>>))

KeyBitDictBase_get_data(cls, c) ==
    IF c.params.kind = "none" THEN RDict(<<>>)
    ELSE LET src == get_source_dict(cls, c)
             keys == IF c.params.kind = "star" THEN DictKeys(src.dict) ELSE c.params.keys
         IN IF src.raised THEN Raise(src.exc)
            ELSE RDict(CollectData(cls, src.dict, keys, <<>>))

\* hasattr(view_instance, 'paginator') and the two hasattr probes of the paginator
DiscoveredParams(view) ==
    IF view.isNone \/ ~view.has_paginator THEN <<>>
    ELSE (IF ~view.paginator.isNone /\ view.paginator.has_page
          THEN <<view.paginator.page>> ELSE <<>>)
         \o (IF ~view.paginator.isNone /\ view.paginator.has_size
             THEN <<view.paginator.size>> ELSE <<>>)

\* PaginationKeyBit.get_data that keeps the selector it was given and adds
\* the paginator's names to it
PaginationKeyBit_get_data_keep(c) ==
    [ret |-> KeyBitDictBase_get_data("PaginationKeyBit",
                 [c EXCEPT !.params =
                     IF c.params.kind = "star" THEN PStar
                     ELSE PList(c.params.keys \o DiscoveredParams(c.view_instance))]),
     params |-> c.params]

\* PaginationKeyBit.get_data that appends the paginator's names to the list
\* it was given instead of a new one
PaginationKeyBit_get_data_inplace(c) ==
    [ret |-> KeyBitDictBase_get_data("PaginationKeyBit",
                 [c EXCEPT !.params = PList(DiscoveredParams(c.view_instance))]),
     params |-> IF c.params.kind = "list"
                THEN PList(c.params.keys \o DiscoveredParams(c.view_instance))
                ELSE c.params]

\* the result, and the object the caller passed as params after the call:
\* kwargs['params'] = [] binds a new list, the appends go to that list
PaginationKeyBit_get_data(c) ==
    [ret |-> KeyBitDictBase_get_data("PaginationKeyBit",
                 [c EXCEPT !.params = PList(DiscoveredParams(c.view_instance))]),
     params |-> c.params]

(***************************************************************************)
(* The scalar bits.                                                        *)
(***************************************************************************)
UniqueViewIdKeyBit_get_data(c) ==
    IF ~c.view_instance.isNone
    THEN RStr(Join(<<c.view_instance.module, c.view_instance.cls>>))
    ELSE RStr(DEFAULT_CACHE_ANY_VALUE)

UniqueMethodIdKeyBit_get_data(c) ==
    IF c.view_instance.isNone \/ c.view_method.isNone
    THEN RStr(DEFAULT_CACHE_ANY_VALUE)
    ELSE RStr(Join(<<c.view_instance.module, c.view_instance.cls, c.view_method.name>>))

LanguageKeyBit_get_data(c) == RStr(force_text(c.lang))

FormatKeyBit_get_data(c) ==
    IF ~c.request.isNone THEN RStr(force_text(c.request.format))
    ELSE RStr(DEFAULT_CACHE_ANY_VALUE)

get_id_from_user(user) == user.pk

UserKeyBit_get_data(c) ==
    IF c.request.isNone THEN RStr(DEFAULT_CACHE_ANY_VALUE)
    ELSE IF c.request.has_user /\ ~c.request.user.isNone
            /\ c.request.user.is_authenticated
         THEN RStr(force_text(get_id_from_user(c.request.user)))
         ELSE RStr(<<"anonymous">>)

\* ModelNameKeyBit.get_data that asks the view before the override
ModelNameKeyBit_get_data_viewfirst(c) ==
    IF c.params.truthy /\ c.params.kind # "dict" THEN Raise("AttributeError")
    ELSE LET model_class == IF c.params.truthy THEN c.params.cls ELSE NoClass
         IN IF ~c.view_instance.isNone
            THEN RStr(Join(<<c.view_instance.queryset.model.module,
                             c.view_instance.queryset.model.name>>))
            ELSE IF ~model_class.isNone
                 THEN RStr(Join(<<model_class.module, model_class.name>>))
                 ELSE RStr(DEFAULT_CACHE_ANY_VALUE)

ModelNameKeyBit_get_data(c) ==
    IF c.params.truthy /\ c.params.kind # "dict" THEN Raise("AttributeError")
    ELSE LET model_class == IF c.params.truthy THEN c.params.cls ELSE NoClass
         IN IF ~model_class.isNone
            THEN RStr(Join(<<model_class.module, model_class.name>>))
            ELSE IF ~c.view_instance.isNone
                 THEN RStr(Join(<<c.view_instance.queryset.model.module,
                                  c.view_instance.queryset.model.name>>))
                 ELSE RStr(DEFAULT_CACHE_ANY_VALUE)

ArgsIndexable(args, i) == IF i >= 0 THEN i < Len(args) ELSE -i <= Len(args)
ArgsItem(args, i) == IF i >= 0 THEN args[i + 1] ELSE args[Len(args) + i + 1]

\* ArgsKeyBit.get_data that walks args and keeps the selected positions
ArgsKeyBit_get_data_argsorder(c) ==
    CASE c.params.kind = "star" -> RList(c.args)
      [] c.params.kind = "none" -> RList(<<>>)
      [] OTHER ->
           IF \A j \in 1..Len(c.params.idx) : ArgsIndexable(c.args, c.params.idx[j])
           THEN LET Wanted(n) ==
                        \E j \in 1..Len(c.params.idx) :
                            c.params.idx[j] \in {n - 1, n - 1 - Len(c.args)}
                    positions == SelectSeq([n \in 1..Len(c.args) |-> n], Wanted)
                IN RList([n \in 1..Len(positions) |-> c.args[positions[n]]])
           ELSE Raise("IndexError")

ArgsKeyBit_get_data(c) ==
    CASE c.params.kind = "star" -> RList(c.args)
      [] c.params.kind = "none" -> RList(<<>>)
      [] OTHER ->
           IF \A j \in 1..Len(c.params.idx) : ArgsIndexable(c.args, c.params.idx[j])
           THEN RList([j \in 1..Len(c.params.idx) |-> ArgsItem(c.args, c.params.idx[j])])
           ELSE Raise("IndexError")

(***************************************************************************)
(* The queryset-derived bits.  A queryset is its model, whether it is an   *)
(* EmptyQuerySet (none), whether compiling its query raises EmptyResultSet *)
(* (unsat), the conditions of its query and the rows it selects.           *)
(***************************************************************************)
IsFlagged(row) == row.flag

\* view_instance.filter_queryset(view_instance.get_queryset())
filter_queryset(view) ==
    LET qs == view.queryset
    IN CASE view.filter = "flagged" ->
              [qs EXCEPT !.where = Append(@, "flag"), !.rows = SelectSeq(@, IsFlagged)]
         [] view.filter = "in_empty" ->
              [qs EXCEPT !.where = Append(@, "in()"), !.unsat = TRUE, !.rows = <<>>]
         [] view.filter = "none" ->
              [qs EXCEPT !.none = TRUE, !.rows = <<>>]
         [] OTHER -> qs

\* QuerySet.filter(**{lookup_field: lookup_value}): ValueError when the value
\* cannot be coerced to the field's type
LookupFilter(qs, value) ==
    IF value.kind # "int" THEN [raised |-> TRUE, qs |-> qs]
    ELSE LET HasPk(row) == row.pk = value.i
         IN [raised |-> FALSE,
             qs |-> [qs EXCEPT !.where = Append(@, "pk=" \o ToString(value.i)),
                               !.rows = SelectSeq(@, HasPk)]]

\* queryset.query.__str__()
QueryStr(qs) == <<"SELECT">> \o qs.model.name \o qs.where

SqlQueryKeyBitBase_get_queryset_query_string(qs) ==
    IF qs.none THEN RNone
    ELSE IF qs.unsat THEN RNone
         ELSE RStr(QueryStr(qs))

BoolStr(b) == IF b THEN "True" ELSE "False"

RECURSIVE RowsText(_)
RowsText(rows) ==
    IF rows = <<>> THEN <<>>
    ELSE <<"(", ToString(Head(rows).pk), ",", BoolStr(Head(rows).flag), ")">>
         \o (IF Len(rows) > 1 THEN <<",">> ELSE <<>>) \o RowsText(Tail(rows))

\* force_text(queryset.values_list()): the repr of the evaluated queryset
ValuesListText(qs) == <<"<QuerySet ", "[">> \o RowsText(qs.rows) \o <<"]", ">">>

\* compat.queryset_to_value_list: the list inside the repr
queryset_to_value_list(text) == SubSeq(text, 2, Len(text) - 1)

count(qs) == Len(qs.rows)

\* _get_queryset_query_values without the count() test
ModelInstanceKeyBitBase_get_queryset_query_values_nocount(qs) ==
    IF qs.none THEN RNone
    ELSE IF qs.unsat THEN RNone
         ELSE RStr(queryset_to_value_list(ValuesListText(qs)))

ModelInstanceKeyBitBase_get_queryset_query_values(qs) ==
    IF qs.none \/ count(qs) = 0 THEN RNone
    ELSE IF qs.unsat THEN RNone
         ELSE RStr(queryset_to_value_list(ValuesListText(qs)))

ListSqlQueryKeyBit_get_data(c) ==
    IF c.view_instance.isNone THEN Raise("AttributeError")
    ELSE SqlQueryKeyBitBase_get_queryset_query_string(filter_queryset(c.view_instance))

\* RetrieveSqlQueryKeyBit.get_data without the except ValueError
RetrieveSqlQueryKeyBit_get_data_uncaught(c) ==
    IF c.view_instance.isNone THEN Raise("AttributeError")
    ELSE IF ~c.view_instance.has_lookup THEN Raise("KeyError")
    ELSE LET f == LookupFilter(filter_queryset(c.view_instance), c.view_instance.lookup)
         IN IF f.raised THEN Raise("ValueError")
            ELSE SqlQueryKeyBitBase_get_queryset_query_string(f.qs)

RetrieveSqlQueryKeyBit_get_data(c) ==
    IF c.view_instance.isNone THEN Raise("AttributeError")
    ELSE IF ~c.view_instance.has_lookup THEN Raise("KeyError")
    ELSE LET f == LookupFilter(filter_queryset(c.view_instance), c.view_instance.lookup)
         IN IF f.raised THEN RNone
            ELSE SqlQueryKeyBitBase_get_queryset_query_string(f.qs)

RetrieveModelKeyBit_get_data(c) ==
    IF c.view_instance.isNone THEN Raise("AttributeError")
    ELSE IF ~c.view_instance.has_lookup THEN Raise("KeyError")
    ELSE LET f == LookupFilter(filter_queryset(c.view_instance), c.view_instance.lookup)
         IN IF f.raised THEN RNone
            ELSE ModelInstanceKeyBitBase_get_queryset_query_values(f.qs)

ListModelKeyBit_get_data(c) ==
    IF c.view_instance.isNone THEN Raise("AttributeError")
    ELSE ModelInstanceKeyBitBase_get_queryset_query_values(filter_queryset(c.view_instance))

(***************************************************************************)
(* Construction: KeyBitBase.__init__(params=None), and params='*' for the  *)
(* classes with AllArgsMixin.                                              *)
(***************************************************************************)
DictBits ==
    {"HeadersKeyBit", "RequestMetaKeyBit", "QueryParamsKeyBit", "PaginationKeyBit",
     "KwargsKeyBit"}

ScalarBits ==
    {"UniqueViewIdKeyBit", "UniqueMethodIdKeyBit", "LanguageKeyBit", "FormatKeyBit",
     "UserKeyBit"}

QuerysetBits ==
    {"ListSqlQueryKeyBit", "RetrieveSqlQueryKeyBit", "RetrieveModelKeyBit",
     "ListModelKeyBit"}

Bits == DictBits \cup ScalarBits \cup QuerysetBits \cup {"ModelNameKeyBit", "ArgsKeyBit"}

AllArgsBits == {"QueryParamsKeyBit", "PaginationKeyBit", "ArgsKeyBit", "KwargsKeyBit"}

KeyBitBase_init(params) == params

AllArgsMixin_default == PStar

KeyBitBase_default == PNone

(***************************************************************************)
(* The inputs the calls are drawn from.                                    *)
(***************************************************************************)
AcceptLanguage == <<"A", "-", "L">>
HTTP_A_L == <<"H", "T", "T", "P", "_", "A", "_", "L">>
HTTP_HTTP_A_L == <<"H", "T", "T", "P", "_">> \o HTTP_A_L
NoneKey == <<"None">>      \* the key None: no mapping holds it

HeaderNames == {AcceptLanguage, Lower(AcceptLanguage), <<"X">>, HTTP_A_L}
MetaKeys == {HTTP_A_L, HTTP_HTTP_A_L, <<"X">>}
MetaValues == {VNone, VStr(<<"ru">>), VInt(10)}
QueryNames == {<<"page">>, <<"page_size">>, <<"q">>}
QueryValues == {VNone, VStr(<<"1">>), VStr(<<"100">>)}
KwargNames == {<<"pk">>, <<"slug">>}
KwargValues == {VNone, VInt(3), VStr(<<"x">>)}
ArgValues == {"a", "b"}
ArgIndices == -1..MaxArgs

Widget == Class(<<"app", ".", "models">>, <<"Widget">>)
Gadget == Class(<<"app", ".", "models">>, <<"Gadget">>)

Selectors(names) == {PNone, PStar} \cup {PList(ks) : ks \in SeqsUpTo(names, MaxSel)}

ParamsFor(b) ==
    CASE b \in {"HeadersKeyBit", "RequestMetaKeyBit"} -> Selectors(HeaderNames)
      [] b = "QueryParamsKeyBit" -> Selectors(QueryNames)
      [] b = "KwargsKeyBit" -> Selectors(KwargNames)
      [] b = "PaginationKeyBit" -> {PNone, PStar, PList(<<<<"q">>>>), PList(<<<<"page">>>>)}
      [] b = "ArgsKeyBit" ->
           {PNone, PStar} \cup {PIdx(is) : is \in SeqsUpTo(ArgIndices, MaxSel)}
      [] b = "ModelNameKeyBit" ->
           {PNone, PStar, PList(<<<<"q">>>>), PDict(FALSE, NoClass), PDict(TRUE, NoClass),
            PDict(TRUE, Widget), PDict(TRUE, Gadget)}
      [] OTHER -> {PNone, PList(<<<<"q">>>>)}

Row(pk, flag) == [pk |-> pk, flag |-> flag]
AllRows == <<Row(1, TRUE), Row(2, TRUE), Row(3, FALSE)>>

\* the tables: what is left of AllRows, in its order, with at most MaxRows rows
Tables ==
    {t \in SeqsUpTo({AllRows[j] : j \in 1..Len(AllRows)}, MaxRows) :
        \A i, j \in 1..Len(t) : i < j => t[i].pk < t[j].pk}

ViewsModule == <<"app", ".", "views">>

WidgetView ==
    View(ViewsModule, <<"WidgetView">>, FALSE, NoPaginator, QuerySet(Widget, <<>>),
         "all", FALSE, VNone)

BasicViews ==
    {WidgetView, [WidgetView EXCEPT !.cls = <<"GadgetView">>, !.queryset.model = Gadget]}

Paginators ==
    {NoPaginator}
    \cup {Paginator(hp, p, hs, s) :
            hp \in BOOLEAN, hs \in BOOLEAN,
            p \in {<<"page">>, NoneKey}, s \in {<<"page_size">>, NoneKey}}

PaginatorViews ==
    {WidgetView}
    \cup {[WidgetView EXCEPT !.has_paginator = TRUE, !.paginator = p] : p \in Paginators}

QuerysetViews ==
    {[WidgetView EXCEPT !.queryset.rows = t, !.filter = f,
                        !.has_lookup = l.kind # "none", !.lookup = l] :
        t \in Tables, f \in {"all", "flagged", "in_empty", "none"},
        l \in {VNone, VInt(1), VInt(3), VStr(<<"abc">>)}}

ViewsFor(b) ==
    CASE b = "PaginationKeyBit" -> PaginatorViews
      [] b \in QuerysetBits -> QuerysetViews
      [] OTHER -> BasicViews

ListMethod == Method(<<"list">>)

Json == VStr(<<"json">>)
PlainRequest == Request(<<>>, <<>>, Json, FALSE, NoUser)

MetaRequests ==
    {[PlainRequest EXCEPT !.META = d] : d \in Dicts(MetaKeys, MetaValues, MaxSrc)}

GetRequests ==
    {[PlainRequest EXCEPT !.GET = d] : d \in Dicts(QueryNames, QueryValues, MaxSrc)}

UserRequests ==
    {PlainRequest, [PlainRequest EXCEPT !.format = VStr(<<"html">>)]}
    \cup {[PlainRequest EXCEPT !.has_user = TRUE, !.user = u] :
            u \in {NoUser, User(FALSE, VNone), User(TRUE, VInt(10)),
                   User(TRUE, VStr(<<"u7">>))}}

RequestsFor(b) ==
    CASE b \in {"HeadersKeyBit", "RequestMetaKeyBit"} -> MetaRequests
      [] b \in {"QueryParamsKeyBit", "PaginationKeyBit"} -> GetRequests
      [] b \in {"FormatKeyBit", "UserKeyBit"} -> UserRequests
      [] OTHER -> {PlainRequest}

ArgsFor(b) == IF b = "ArgsKeyBit" THEN SeqsUpTo(ArgValues, MaxArgs) ELSE {<<>>}

KwargsFor(b) ==
    IF b = "KwargsKeyBit" THEN Dicts(KwargNames, KwargValues, MaxSrc) ELSE {<<>>}

LangsFor(b) ==
    IF b = "LanguageKeyBit" THEN {VStr(<<"en">>), VStr(<<"ru">>)} ELSE {VStr(<<"en">>)}

Context(p, v, m, r, a, k, l) ==
    [params |-> p, view_instance |-> v, view_method |-> m, request |-> r,
     args |-> a, kwargs |-> k, lang |-> l]

DefaultView(b) ==
    CASE b = "PaginationKeyBit" ->
           [WidgetView EXCEPT !.has_paginator = TRUE,
                              !.paginator = Paginator(TRUE, <<"page">>, TRUE, <<"page_size">>)]
      [] b \in QuerysetBits ->
           [WidgetView EXCEPT !.queryset.rows = <<AllRows[1]>>, !.has_lookup = TRUE,
                              !.lookup = VInt(1)]
      [] OTHER -> WidgetView

DefaultRequest(b) ==
    CASE b \in {"HeadersKeyBit", "RequestMetaKeyBit"} ->
           [PlainRequest EXCEPT !.META = <<[k |-> HTTP_A_L, v |-> VStr(<<"ru">>)]>>]
      [] b \in {"QueryParamsKeyBit", "PaginationKeyBit"} ->
           [PlainRequest EXCEPT !.GET = <<[k |-> <<"page">>, v |-> VStr(<<"1">>)]>>]
      [] OTHER -> PlainRequest

\* the calls of a bit: every input of the bit with the view, the method and
\* the request present, and every way of leaving some of the three out
Contexts(b, p) ==
    {Context(p, v, ListMethod, r, a, k, l) :
        v \in ViewsFor(b), r \in RequestsFor(b), a \in ArgsFor(b), k \in KwargsFor(b),
        l \in LangsFor(b)}
    \cup {Context(p, v, m, r, <<>>, <<>>, VStr(<<"en">>)) :
            v \in {NoView, DefaultView(b)}, m \in {NoMethod, ListMethod},
            r \in {NoRequest, DefaultRequest(b)}}

\* the params object of a call: the bit's own params (as the key constructor
\* passes it), or an object of the caller
PassedParams == {[alias |-> TRUE, params |-> self_params]}
                   \cup {[alias |-> FALSE, params |-> p] : p \in {PNone, PStar}}

NoAfter == [params |-> PNone, args |-> <<>>, kwargs |-> <<>>]

NoCall == [alias |-> FALSE, ctx |-> Context(PNone, NoView, NoMethod, NoRequest, <<>>, <<>>, VNone)]

(***************************************************************************)
(* The state machine.                                                      *)
(***************************************************************************)
Init ==
    /\ bit = "none"
    /\ self_params = PNone
    /\ init_params = PNone
    /\ call = NoCall
    /\ after = NoAfter
    /\ result = Idle

\* SomeKeyBit(params): KeyBitBase.__init__ stores the specifier
Construct(b, p) ==
    /\ result.status = "idle"
    /\ bit' = b
    /\ self_params' = KeyBitBase_init(p)
    /\ init_params' = p
    /\ call' = NoCall
    /\ after' = NoAfter
    /\ result' = Idle

ConstructWith == \E b \in Bits : \E p \in ParamsFor(b) : Construct(b, p)

\* SomeKeyBit(): the default of the class
ConstructDefault ==
    \E b \in Bits :
        Construct(b, IF b \in AllArgsBits THEN AllArgsMixin_default ELSE KeyBitBase_default)

\* a bit of class b is constructed and no call is under way
Ready(b) == bit = b /\ result.status = "idle"

\* one get_data call: ret is what it produced, params_after the state it
\* leaves the passed params object in; no bit writes to args or kwargs
Invoke(pp, c, ret, params_after) ==
    /\ call' = [alias |-> pp.alias, ctx |-> c]
    /\ result' = ret
    /\ after' = [params |-> params_after, args |-> c.args, kwargs |-> c.kwargs]
    /\ self_params' = IF pp.alias THEN params_after ELSE self_params
    /\ UNCHANGED <<bit, init_params>>

get_data_UniqueViewIdKeyBit ==
    /\ Ready("UniqueViewIdKeyBit")
    /\ \E pp \in PassedParams : \E c \in Contexts(bit, pp.params) :
          Invoke(pp, c, UniqueViewIdKeyBit_get_data(c), c.params)

get_data_UniqueMethodIdKeyBit ==
    /\ Ready("UniqueMethodIdKeyBit")
    /\ \E pp \in PassedParams : \E c \in Contexts(bit, pp.params) :
          Invoke(pp, c, UniqueMethodIdKeyBit_get_data(c), c.params)

get_data_LanguageKeyBit ==
    /\ Ready("LanguageKeyBit")
    /\ \E pp \in PassedParams : \E c \in Contexts(bit, pp.params) :
          Invoke(pp, c, LanguageKeyBit_get_data(c), c.params)

get_data_FormatKeyBit ==
    /\ Ready("FormatKeyBit")
    /\ \E pp \in PassedParams : \E c \in Contexts(bit, pp.params) :
          Invoke(pp, c, FormatKeyBit_get_data(c), c.params)

get_data_UserKeyBit ==
    /\ Ready("UserKeyBit")
    /\ \E pp \in PassedParams : \E c \in Contexts(bit, pp.params) :
          Invoke(pp, c, UserKeyBit_get_data(c), c.params)

get_data_HeadersKeyBit ==
    /\ Ready("HeadersKeyBit")
    /\ \E pp \in PassedParams : \E c \in Contexts(bit, pp.params) :
          Invoke(pp, c, KeyBitDictBase_get_data("HeadersKeyBit", c), c.params)

get_data_RequestMetaKeyBit ==
    /\ Ready("RequestMetaKeyBit")
    /\ \E pp \in PassedParams : \E c \in Contexts(bit, pp.params) :
          Invoke(pp, c, KeyBitDictBase_get_data("RequestMetaKeyBit", c), c.params)

get_data_QueryParamsKeyBit ==
    /\ Ready("QueryParamsKeyBit")
    /\ \E pp \in PassedParams : \E c \in Contexts(bit, pp.params) :
          Invoke(pp, c, KeyBitDictBase_get_data("QueryParamsKeyBit", c), c.params)

get_data_PaginationKeyBit ==
    /\ Ready("PaginationKeyBit")
    /\ \E pp \in PassedParams : \E c \in Contexts(bit, pp.params) :
          LET out == PaginationKeyBit_get_data(c)
          IN Invoke(pp, c, out.ret, out.params)

get_data_KwargsKeyBit ==
    /\ Ready("KwargsKeyBit")
    /\ \E pp \in PassedParams : \E c \in Contexts(bit, pp.params) :
          Invoke(pp, c, KeyBitDictBase_get_data("KwargsKeyBit", c), c.params)

get_data_ModelNameKeyBit ==
    /\ Ready("ModelNameKeyBit")
    /\ \E pp \in PassedParams : \E c \in Contexts(bit, pp.params) :
          Invoke(pp, c, ModelNameKeyBit_get_data(c), c.params)

get_data_ListSqlQueryKeyBit ==
    /\ Ready("ListSqlQueryKeyBit")
    /\ \E pp \in PassedParams : \E c \in Contexts(bit, pp.params) :
          Invoke(pp, c, ListSqlQueryKeyBit_get_data(c), c.params)

get_data_RetrieveSqlQueryKeyBit ==
    /\ Ready("RetrieveSqlQueryKeyBit")
    /\ \E pp \in PassedParams : \E c \in Contexts(bit, pp.params) :
          Invoke(pp, c, RetrieveSqlQueryKeyBit_get_data(c), c.params)

get_data_RetrieveModelKeyBit ==
    /\ Ready("RetrieveModelKeyBit")
    /\ \E pp \in PassedParams : \E c \in Contexts(bit, pp.params) :
          Invoke(pp, c, RetrieveModelKeyBit_get_data(c), c.params)

get_data_ListModelKeyBit ==
    /\ Ready("ListModelKeyBit")
    /\ \E pp \in PassedParams : \E c \in Contexts(bit, pp.params) :
          Invoke(pp, c, ListModelKeyBit_get_data(c), c.params)

get_data_ArgsKeyBit ==
    /\ Ready("ArgsKeyBit")
    /\ \E pp \in PassedParams : \E c \in Contexts(bit, pp.params) :
          Invoke(pp, c, ArgsKeyBit_get_data(c), c.params)

\* the caller takes the fragment; the bit stays as the call left it
Consume ==
    /\ result.status # "idle"
    /\ call' = NoCall
    /\ after' = NoAfter
    /\ result' = Idle
    /\ UNCHANGED <<bit, self_params, init_params>>

Next ==
    \/ ConstructWith
    \/ ConstructDefault
    \/ get_data_UniqueViewIdKeyBit
    \/ get_data_UniqueMethodIdKeyBit
    \/ get_data_LanguageKeyBit
    \/ get_data_FormatKeyBit
    \/ get_data_UserKeyBit
    \/ get_data_HeadersKeyBit
    \/ get_data_RequestMetaKeyBit
    \/ get_data_QueryParamsKeyBit
    \/ get_data_PaginationKeyBit
    \/ get_data_KwargsKeyBit
    \/ get_data_ModelNameKeyBit
    \/ get_data_ListSqlQueryKeyBit
    \/ get_data_RetrieveSqlQueryKeyBit
    \/ get_data_RetrieveModelKeyBit
    \/ get_data_ListModelKeyBit
    \/ get_data_ArgsKeyBit
    \/ Consume

Spec == Init /\ [][Next]_vars

(***************************************************************************)
(* Properties.                                                             *)
(***************************************************************************)
Called == result.status # "idle"
Ctx == call.ctx

\* the mapping the bit reads
Src ==
    CASE bit \in {"HeadersKeyBit", "RequestMetaKeyBit"} -> Ctx.request.META
      [] bit \in {"QueryParamsKeyBit", "PaginationKeyBit"} -> Ctx.request.GET
      [] OTHER -> Ctx.kwargs

SrcAvailable == bit = "KwargsKeyBit" \/ ~Ctx.request.isNone

\* the selector KeyBitDictBase.get_data works through: the passed one, every
\* key of the source for the wildcard, and for PaginationKeyBit the names
\* found on the paginator
Sel ==
    CASE bit = "PaginationKeyBit" -> DiscoveredParams(Ctx.view_instance)
      [] Ctx.params.kind = "star" -> DictKeys(Src)
      [] OTHER -> Ctx.params.keys

RKey(key) == prepare_key_for_value_retrieving(bit, key)
AKey(key) == prepare_key_for_value_assignment(bit, key)
SrcValue(key) == DictGet(Src, RKey(key))

\* the names the paginator of the view exposes
PaginatorNames ==
    LET v == Ctx.view_instance
    IN IF v.isNone \/ ~v.has_paginator \/ v.paginator.isNone THEN {}
       ELSE {n \in {v.paginator.page} : v.paginator.has_page}
            \cup {n \in {v.paginator.size} : v.paginator.has_size}

\* C1 (as claimed): a get_data call whose view_instance, view_method or
\* request is None never raises, whatever the bit.
C1_NullContextNeverRaises ==
    (Called /\ (Ctx.view_instance.isNone \/ Ctx.view_method.isNone \/ Ctx.request.isNone))
        => result.status = "ok"

\* C2: in a dict-sourced bit with a non-null selector, the output holds the
\* assignment key of a selector key exactly when the source value at its
\* retrieval key is not None; every entry comes from such a key and carries
\* the text of its value, so there are at most as many entries as selector keys.
C2_IncludedIffNonNull ==
    (Called /\ bit \in DictBits /\ SrcAvailable
       /\ (bit = "PaginationKeyBit" \/ Ctx.params.kind # "none"))
        => /\ result.status = "ok"
           /\ result.kind = "dict"
           /\ \A j \in 1..Len(Sel) :
                 HasKey(result.dict, AKey(Sel[j])) <=> SrcValue(Sel[j]).kind # "none"
           /\ \A n \in 1..Len(result.dict) :
                 \E j \in 1..Len(Sel) :
                    /\ AKey(Sel[j]) = result.dict[n].k
                    /\ SrcValue(Sel[j]).kind # "none"
                    /\ result.dict[n].v = force_text(SrcValue(Sel[j]))
           /\ Len(result.dict) <= Len(Sel)

\* C2 witness: HeadersKeyBit selects two names with different output keys,
\* the source holds None for one of them, and the output has one entry.
C2_Witness ==
    /\ Called /\ bit = "HeadersKeyBit" /\ result.status = "ok"
    /\ Ctx.params.kind = "list" /\ Len(Ctx.params.keys) = 2
    /\ AKey(Ctx.params.keys[1]) # AKey(Ctx.params.keys[2])
    /\ \E j \in 1..2 : /\ HasKey(Src, RKey(Ctx.params.keys[j]))
                       /\ SrcValue(Ctx.params.keys[j]).kind = "none"
    /\ Len(result.dict) = 1

NoNullValues(d) == \A j \in 1..Len(d) : d[j].v.kind # "none"

\* C3 (as claimed): in every dict-sourced bit, the wildcard on a source of N
\* entries without None yields N entries in the order of the source.
C3_WildcardAllBits ==
    (Called /\ bit \in DictBits /\ result.status = "ok"
       /\ Ctx.params.kind = "star" /\ NoNullValues(Src))
        => /\ Len(result.dict) = Len(Src)
           /\ \A j \in 1..Len(Src) : result.dict[j].k = AKey(Src[j].k)

\* C3 (amended): for RequestMetaKeyBit, QueryParamsKeyBit and KwargsKeyBit the
\* wildcard on a source of N entries without None yields N entries, in the
\* order of the source, each with the text of its value.  HeadersKeyBit
\* re-prefixes every source key, so its output holds lower(K) only for the
\* source keys K whose prepare_header_name(lower(K)) is a key with a value
\* too (at most N entries).  PaginationKeyBit ignores the wildcard: its
\* output holds only names of the paginator.
C3_WildcardPerBit ==
    (Called /\ bit \in DictBits /\ Ctx.params.kind = "star" /\ SrcAvailable)
        => /\ result.status = "ok"
           /\ (bit \in {"RequestMetaKeyBit", "QueryParamsKeyBit", "KwargsKeyBit"}
                 /\ NoNullValues(Src))
                => /\ Len(result.dict) = Len(Src)
                   /\ \A j \in 1..Len(Src) :
                         result.dict[j] = [k |-> Src[j].k, v |-> force_text(Src[j].v)]
           /\ bit = "HeadersKeyBit"
                => /\ Len(result.dict) <= Len(Src)
                   /\ \A j \in 1..Len(Src) :
                         HasKey(result.dict, Lower(Src[j].k))
                            <=> DictGet(Src, <<"H", "T", "T", "P", "_">>
                                              \o Upper(ReplaceDash(Lower(Src[j].k)))).kind
                                  # "none"
                   /\ \A n \in 1..Len(result.dict) :
                         \E j \in 1..Len(Src) : result.dict[n].k = Lower(Src[j].k)
           /\ bit = "PaginationKeyBit"
                => \A n \in 1..Len(result.dict) : result.dict[n].k \in PaginatorNames

\* C3 witness: RequestMetaKeyBit with the wildcard over two entries without
\* None returns both.
C3_Witness ==
    /\ Called /\ bit = "RequestMetaKeyBit" /\ Ctx.params.kind = "star"
    /\ Len(Src) = 2 /\ NoNullValues(Src)
    /\ Len(result.dict) = 2

\* C4: PaginationKeyBit selects exactly the names its view's paginator
\* exposes, whatever selector was passed or configured: every output key is
\* such a name, and such a name is in the output exactly when the query
\* string holds a value for it.
C4_PaginationSelector ==
    (Called /\ bit = "PaginationKeyBit" /\ ~Ctx.request.isNone)
        => /\ result.status = "ok"
           /\ result.kind = "dict"
           /\ \A n \in 1..Len(result.dict) :
                 /\ result.dict[n].k \in PaginatorNames
                 /\ result.dict[n].v = force_text(DictGet(Ctx.request.GET, result.dict[n].k))
           /\ \A name \in PaginatorNames :
                 HasKey(result.dict, name) <=> DictGet(Ctx.request.GET, name).kind # "none"

\* C4 witness: the paginator knows only page_size, the query string holds
\* page_size and page, the configured selector is the wildcard, and the
\* output is the page_size entry alone.
C4_Witness ==
    /\ Called /\ bit = "PaginationKeyBit" /\ Ctx.params.kind = "star"
    /\ PaginatorNames = {<<"page_size">>}
    /\ HasKey(Ctx.request.GET, <<"page">>)
    /\ DictGet(Ctx.request.GET, <<"page">>).kind # "none"
    /\ result.dict = <<[k |-> <<"page_size">>, v |-> <<"100">>]>>

DottedName(c) == c.module \o <<".">> \o c.name

RetrieveBits == {"RetrieveSqlQueryKeyBit", "RetrieveModelKeyBit"}

Filtered ==
    LET qs == filter_queryset(Ctx.view_instance)
    IN IF bit = "RetrieveModelKeyBit"
       THEN LookupFilter(qs, Ctx.view_instance.lookup)
       ELSE [raised |-> FALSE, qs |-> qs]

\* C7: ListModelKeyBit and RetrieveModelKeyBit return None when the filtered
\* queryset is an EmptyQuerySet or has no row, never the text of an empty
\* list; they return the text of the rows only when there is a row.
C7_NoRowsIsNone ==
    (Called /\ bit \in {"ListModelKeyBit", "RetrieveModelKeyBit"}
       /\ result.status = "ok")
        => /\ result.kind \in {"none", "str"}
           /\ result.str # <<"[", "]">>
           /\ (Filtered.raised \/ Filtered.qs.none \/ Filtered.qs.rows = <<>>)
                => result = RNone
           /\ result.kind = "str"
                <=> (~Filtered.raised /\ ~Filtered.qs.none /\ Filtered.qs.rows # <<>>)
           /\ result.kind = "str" => Len(result.str) >= 7

\* C7 witness: RetrieveModelKeyBit, the table has rows, the lookup value is
\* well formed, no row has it, and the answer is None.
C7_Witness ==
    /\ Called /\ bit = "RetrieveModelKeyBit"
    /\ ~Ctx.view_instance.isNone /\ Ctx.view_instance.has_lookup
    /\ Ctx.view_instance.filter = "all"
    /\ Ctx.view_instance.queryset.rows # <<>>
    /\ ~Filtered.raised /\ ~Filtered.qs.none /\ Filtered.qs.rows = <<>>
    /\ result = RNone

\* C8: ArgsKeyBit returns args itself for the wildcard, the empty list for
\* None, and for a list of valid indices the arguments at those indices, one
\* per index and in the order of the list.
C8_ArgsSelection ==
    (Called /\ bit = "ArgsKeyBit")
        => /\ Ctx.params.kind = "star" => result = RList(Ctx.args)
           /\ Ctx.params.kind = "none" => result = RList(<<>>)
           /\ (Ctx.params.kind = "idx"
                 /\ \A j \in 1..Len(Ctx.params.idx) :
                       Ctx.params.idx[j] \in (-Len(Ctx.args))..(Len(Ctx.args) - 1))
                => /\ result.status = "ok"
                   /\ result.kind = "list"
                   /\ Len(result.list) = Len(Ctx.params.idx)
                   /\ \A j \in 1..Len(Ctx.params.idx) :
                         result.list[j] =
                            Ctx.args[((Ctx.params.idx[j] + Len(Ctx.args)) % Len(Ctx.args)) + 1]

\* C8 witness: args (a, b) with the selector [1, 0] give [b, a].
C8_Witness ==
    /\ Called /\ bit = "ArgsKeyBit"
    /\ Ctx.args = <<"a", "b">> /\ Ctx.params = PIdx(<<1, 0>>)
    /\ result.list = <<"b", "a">>

\* C9: no get_data call changes the bit's params or the caller's objects: the
\* bit's params is what the constructor got, and after a call the passed
\* params, args and kwargs are what they were before it.
C9_NothingMutated ==
    /\ self_params = init_params
    /\ Called => after = [params |-> Ctx.params, args |-> Ctx.args, kwargs |-> Ctx.kwargs]

\* C9 witness: a PaginationKeyBit configured with a list is called with its
\* own params and finds names on the paginator.
C9_Witness ==
    /\ Called /\ bit = "PaginationKeyBit" /\ call.alias
    /\ Ctx.params.kind = "list" /\ Ctx.params.keys # <<>>
    /\ PaginatorNames # {}
    /\ result.status = "ok" /\ result.dict # <<>>

\* the selector positions that write the output key
Writers(key) ==
    {j \in 1..Len(Sel) : AKey(Sel[j]) = key /\ SrcValue(Sel[j]).kind # "none"}

Last(S) == CHOOSE j \in S : \A i \in S : i <= j
First(S) == CHOOSE j \in S : \A i \in S : j <= i

\* C10: a dict-sourced bit works through an explicit selector in order: the
\* output has one entry per assignment key, its value is the one of the last
\* selector key with that assignment key and a value, and the entries stand
\* in the order in which their keys first got a value.
C10_LastWriteWins ==
    (Called /\ bit \in DictBits /\ result.status = "ok"
       /\ (bit = "PaginationKeyBit" \/ Ctx.params.kind = "list"))
        => /\ \A m, n \in 1..Len(result.dict) :
                 result.dict[m].k = result.dict[n].k => m = n
           /\ \A n \in 1..Len(result.dict) :
                 /\ Writers(result.dict[n].k) # {}
                 /\ result.dict[n].v =
                       force_text(SrcValue(Sel[Last(Writers(result.dict[n].k))]))
           /\ \A m, n \in 1..Len(result.dict) :
                 m < n => First(Writers(result.dict[m].k)) < First(Writers(result.dict[n].k))

\* C10 witness: HeadersKeyBit selects Accept-Language and accept-language,
\* the source holds a value, and the output is the single accept-language entry.
C10_Witness ==
    /\ Called /\ bit = "HeadersKeyBit" /\ result.status = "ok"
    /\ Ctx.params = PList(<<AcceptLanguage, Lower(AcceptLanguage)>>)
    /\ SrcValue(AcceptLanguage).kind # "none"
    /\ Len(result.dict) = 1
    /\ result.dict[1].k = Lower(AcceptLanguage)

====
